---- MODULE Spec2Model ----
(***************************************************************************)
(* Model of pyboy/core/serial.py: the Game Boy link cable emulation over   *)
(* the BGB link protocol.  One Serial object has two threads: the main     *)
(* thread, which constructs it, calls tick() and stop(), and the receiver  *)
(* thread recv_thread().  Side 1 is the device under study; side 2 is its  *)
(* peer: an arbitrary BGB peer (Spec, SpecDisabled, SpecTick, SpecRecv,    *)
(* SpecClock, SpecTransfer) or a second Serial object (SpecLink,           *)
(* SpecLinkFair, SpecHandshake).                                           *)
(***************************************************************************)
EXTENDS Integers, Sequences, FiniteSets, TLC

\* ------------------------------------------------------------ constants
SERIAL_FREQ == 8192
CPU_FREQ == 4213440
PACKET_SIZE_BYTES == 8
TsWindow == 2097152
NoTransmit == 65536
TsLimb == 65536
BGB_VERSION == <<1, 4, 0>>
Handlers == {1, 101, 104, 105, 106, 108, 109}

\* ------------------------------------------------------------ bounds
MaxTicks == 2
MaxLinkTicks == 8
MaxQueue == 1
MaxLinkQueue == 1
MaxPeerQueue == 8
MaxRecvTicks == 1
MaxPeerTicks == 1
MaxClockTicks == 3
MaxTransferTicks == 9
MaxFairTicks == 1
MaxFairSyncs == 1
MaxDisabledTicks == 3
MaxHandshakeTicks == 2

\* ------------------------------------------------------------ inputs
Sides == {1, 2}

\* An address is the sequence of its characters.
AddrNone == << >>
AddrGood == <<"1", ".", "2", ".", "3", ".", "4", ":", "5">>
AddrNoColon == <<"1", ".", "2", ".", "3", ".", "4">>
AddrTwoDotsTwoColons == <<"1", ".", "2", ".", "3", ":", "4", ":", "5">>
AddrTwoDotsOneColon == <<"1", ".", "2", ".", "3", ":", "5">>
AddrThreeDotsTwoColons == <<"1", ".", "2", ".", "3", ".", "4", ":", "5", ":", "6">>
AddrEmptyPort == <<"1", ".", "2", ".", "3", ".", "4", ":">>
AddrBadPort == <<"a", ".", "b", ".", "c", ".", "d", ":", "a", "b", "c", "d">>
Addresses ==
    {AddrNone, AddrGood, AddrNoColon, AddrTwoDotsTwoColons, AddrTwoDotsOneColon,
     AddrThreeDotsTwoColons, AddrEmptyPort, AddrBadPort}
Digits == {"0", "1", "2", "3", "4", "5", "6", "7", "8", "9"}

CycleInputs == {257, TsWindow}
LinkCycleInputs == {CPU_FREQ \div SERIAL_FREQ}
RegInputs == {<<165, 129>>}
ClockCycleInputs == {0, 100, TsWindow, TsWindow + 100, 2 * TsWindow}

\* ------------------------------------------------------------ state
VARIABLES
    conn,           \* self.connection: "none" (None), "open", "closed" (socket closed);
                    \* "gone" for an arbitrary peer that closed or reset it
    is_master,      \* self.is_master, "unset" while the attribute does not exist
    SB, SC,         \* serial registers
    trans_bits, cycles_count,
    timestamp, ts_cycles, got_version, last_recv_ts,
    recvq,          \* self.recv, the queue between receiver and tick
    quitting,
    tpc,            \* main thread: "new", "accept", "connect" (in the constructor),
                    \* "idle", "gate", "send", "get", "finish" (in tick), "closing",
                    \* "join" (in stop), "stopped", "raised"
    rpc,            \* receiver thread: "none", "version", "loop" (at the loop test),
                    \* "enter" (about to call connection.recv), "recv" (inside it),
                    \* "handle", "pack", "stamp", "send" (inside a handler and the
                    \* reply), "done", "fault"
    rcur,           \* the packet the receiver thread is handling, the bit it read
                    \* from SB, the SC it read and the reply it has packed
    wire,           \* wire[i]: packets that have arrived at the socket of side i
                    \* and that its connection.recv returns, oldest first
    flight,         \* flight[i]: packets a linked peer has sent to side i and that
                    \* the connection has not delivered yet
    regWritten,     \* whether the CPU has stored to SB/SC
    ticksLeft,      \* ticks the main loop still takes
    completions,    \* how many ticks have returned True
    ev              \* the last step: its operation, outcome and packets

vars ==
    <<conn, is_master, SB, SC, trans_bits, cycles_count, timestamp, ts_cycles,
      got_version, last_recv_ts, recvq, quitting, tpc, rpc, rcur, wire, flight,
      regWritten, ticksLeft, completions, ev>>

regs == <<SB, SC, trans_bits>>
clock == <<cycles_count, timestamp, ts_cycles>>
hist == <<regWritten, completions>>
net == <<wire, flight>>

None == << >>
NoPacket == [pkt |-> None, bit |-> 0, sc |-> 0, resp |-> None]
Peer(i) == 3 - i

\* Side i is linked when its peer is a second Serial object; the packets it sends
\* are then in flight to that object until the connection delivers them.
\* Packets sent to an arbitrary peer leave the model, and the event records them.
Linked(i) == tpc[Peer(i)] # "peer"

Sent(f, i, pkt) == IF Linked(i) THEN [f EXCEPT ![Peer(i)] = Append(@, pkt)] ELSE f

\* The last step of a device with an arbitrary peer.  op: the operation, ret: its
\* outcome, inp: what the step was given (the address of the constructor, the
\* packet the receiver thread read or is handling, the cycles of a tick), tx:
\* the packet the step put on the connection.
Quiet == [op |-> "none", side |-> 1, ret |-> "", inp |-> None, tx |-> None]
Ev(op, i, ret, inp, tx) ==
    IF Linked(i) THEN Quiet
    ELSE [op |-> op, side |-> i, ret |-> ret, inp |-> inp, tx |-> tx]

\* ------------------------------------------------------------ arithmetic
RECURSIVE BitOr(_, _)
BitOr(a, b) ==
    IF a = 0 THEN b
    ELSE IF b = 0 THEN a
    ELSE (IF a % 2 = 1 \/ b % 2 = 1 THEN 1 ELSE 0) + 2 * BitOr(a \div 2, b \div 2)

TopBit(sb) == (sb \div 128) % 2
ClockBit(sc) == (sc \div 128) % 2
ClearStart(sc) == sc % 128
ShiftIn(sb, byte) == BitOr((sb * 2) % 256, byte)

RECURSIVE Count(_, _)
Count(s, ch) ==
    IF s = << >> THEN 0
    ELSE (IF Head(s) = ch THEN 1 ELSE 0) + Count(Tail(s), ch)

\* The part of s after its first ch (empty when ch is not in s).
RECURSIVE After(_, _)
After(s, ch) ==
    IF s = << >> THEN << >>
    ELSE IF Head(s) = ch THEN Tail(s) ELSE After(Tail(s), ch)

\* ------------------------------------------------------------ timestamps
\* A timestamp is a Python int that can pass 2^31.  It is kept as the pair
\* <<high, low>> of value high * 2^16 + low, with low < 2^16 and high unbounded.
Ts(n) == <<n \div TsLimb, n % TsLimb>>

\* self._timestamp += 1
TsInc(t) == IF t[2] + 1 = TsLimb THEN <<t[1] + 1, 0>> ELSE <<t[1], t[2] + 1>>

\* a > b
TsGreater(a, b) == a[1] > b[1] \/ (a[1] = b[1] /\ a[2] > b[2])

\* The top bit of the 32-bit timestamp word.
TsTopBit(t) == (t[1] \div 32768) % 2

\* ------------------------------------------------------------ packets
\* struct.pack("<4BI", ...): four bytes and a little-endian 32-bit word.
PackOK(k, b2, b3, b4, ts) ==
    /\ \A b \in {k, b2, b3, b4} : b >= 0 /\ b <= 255
    /\ ts[1] < TsLimb

Pack(k, b2, b3, b4, ts) ==
    <<k, b2, b3, b4, ts[2] % 256, ts[2] \div 256, ts[1] % 256, (ts[1] \div 256) % 256>>

Unpack(d) ==
    [kind |-> d[1], b2 |-> d[2], b3 |-> d[3], b4 |-> d[4],
     ts |-> <<d[7] + 256 * d[8], d[5] + 256 * d[6]>>]

VersionPacket == Pack(1, BGB_VERSION[1], BGB_VERSION[2], BGB_VERSION[3], Ts(0))

\* What an arbitrary peer sends: a matching and a mismatched Version, a short
\* read, Sync packets, one packet of every other handled kind and packets of a
\* kind that has no handler.
EnvPackets ==
    {VersionPacket, Pack(1, 1, 3, 0, Ts(2)), <<1, 1, 4>>,
     Pack(104, 1, 129, 0, Ts(0)), Pack(104, 0, 129, 0, Ts(2)),
     Pack(105, 1, 129, 0, Ts(2)), Pack(101, 1, 0, 0, Ts(2)),
     Pack(106, 7, 8, 9, Ts(2)), Pack(108, 1, 0, 0, Ts(2)),
     Pack(109, 0, 0, 0, Ts(2)), Pack(7, 1, 0, 0, Ts(0)), Pack(7, 1, 0, 0, Ts(2))}

\* ------------------------------------------------------------ handlers
\* The receiver thread handles a packet in steps, since the main thread runs
\* between them: after the read it is in the handler ("handle": the handler
\* reads SB and puts on self.recv, or closes the socket), then it evaluates the
\* arguments of struct.pack ("pack": it reads SC; "stamp": it reads _timestamp
\* and packs), then it sends the reply ("send").  Each handler gives where the
\* thread is once the handler has done what touches only the thread's own
\* state: "fault" when it has raised, "loop" when it has returned None.
VersionMatches(u) == <<u.b2, u.b3, u.b4>> = BGB_VERSION

\* Variant: the Status reply is not limited to the first Version packet.
HandleVersionMut(i, u) == IF ~VersionMatches(u) THEN "fault" ELSE "stamp"

\* _handle_version.
HandleVersion(i, u) ==
    IF ~VersionMatches(u) THEN "fault"
    ELSE IF ~got_version[i] THEN "stamp" ELSE "loop"

\* self._got_version after _handle_version.
GotVersion(i, u) == got_version[i] \/ (u.kind = 1 /\ VersionMatches(u))

HandleJoypadUpdate(i, u) == "loop"

HandleSync1(i, u) == "handle"

HandleSync2(i, u) == "handle"

HandleSync3(i, u) == "stamp"

HandleStatus(i, u) == "stamp"

HandleWantDisconnect(i, u) == "handle"

Dispatch(i, u) ==
    IF u.kind \notin Handlers THEN "loop"
    ELSE
    CASE u.kind = 1 -> HandleVersion(i, u)
      [] u.kind = 101 -> HandleJoypadUpdate(i, u)
      [] u.kind = 104 -> HandleSync1(i, u)
      [] u.kind = 105 -> HandleSync2(i, u)
      [] u.kind = 106 -> HandleSync3(i, u)
      [] u.kind = 108 -> HandleStatus(i, u)
      [] u.kind = 109 -> HandleWantDisconnect(i, u)

\* _client_data_handler: the bit to answer with ...
ClientDataHandler(i) == TopBit(SB[i])

\* Variant: the received pair is not put on the queue.
ClientDataPutMut(q, u) == q

\* ... and the received pair is put on the queue.
ClientDataPut(q, u) == Append(q, <<u.b2, u.ts>>)

\* Variant: every side answers with kind 104.
SyncKindMut(i) == 104

\* 104 if self.is_master else 105
SyncKind(i) == IF is_master[i] = TRUE THEN 104 ELSE 105

\* The arguments of the struct.pack of each handler, for the packet u, the bit
\* that _client_data_handler returned and the SC that was read.
GetStatusPacket(i) == <<108, 1, 0, 0, timestamp[i]>>

SyncReply(i, bit, sc) == <<SyncKind(i), bit, sc, 0, timestamp[i]>>

Sync3Reply(i, u) == <<106, u.b2, u.b3, u.b4, timestamp[i]>>

ResponseFields(i, u, bit, sc) ==
    CASE u.kind \in {1, 108} -> GetStatusPacket(i)
      [] u.kind \in {104, 105} -> SyncReply(i, bit, sc)
      [] u.kind = 106 -> Sync3Reply(i, u)

PackFieldsOK(f) == PackOK(f[1], f[2], f[3], f[4], f[5])

PackFields(f) == Pack(f[1], f[2], f[3], f[4], f[5])

\* ------------------------------------------------------------ construction
Clock0 ==
    /\ trans_bits = [i \in Sides |-> 0]
    /\ cycles_count = [i \in Sides |-> 0]
    /\ timestamp = [i \in Sides |-> Ts(0)]
    /\ ts_cycles = [i \in Sides |-> 0]
    /\ got_version = [i \in Sides |-> FALSE]
    /\ last_recv_ts = [i \in Sides |-> Ts(0)]
    /\ recvq = [i \in Sides |-> << >>]
    /\ quitting = [i \in Sides |-> FALSE]
    /\ rcur = [i \in Sides |-> NoPacket]
    /\ wire = [i \in Sides |-> << >>]
    /\ flight = [i \in Sides |-> << >>]
    /\ completions = [i \in Sides |-> 0]

Fields0 ==
    /\ SB = [i \in Sides |-> 0]
    /\ SC = [i \in Sides |-> 0]
    /\ regWritten = [i \in Sides |-> FALSE]
    /\ Clock0

\* The address test of __init__: TRUE when the constructor returns early.
AddressRejected(addr) == (~(Count(addr, ".") = 3)) /\ Count(addr, ":") = 1

\* address_ip, address_port = serial_address.split(":") needs exactly two parts.
SplitOK(addr) == Count(addr, ":") + 1 = 2

\* int(address_port) of an address with one colon: the port is a number (the
\* addresses here have no sign, blank or underscore in the port).
PortOK(addr) ==
    LET port == After(addr, ":")
    IN port # << >> /\ \A k \in 1..Len(port) : port[k] \in Digits

\* Serial.__init__ up to bind / accept or connect.
Construct(i, addr, bind) ==
    /\ tpc[i] = "new"
    /\ IF addr = AddrNone \/ AddressRejected(addr)
       THEN /\ tpc' = [tpc EXCEPT ![i] = "idle"]
            /\ ev' = Ev("init", i, "disabled", addr, None)
            /\ is_master' = is_master
       ELSE IF ~SplitOK(addr) \/ ~PortOK(addr)
       THEN /\ tpc' = [tpc EXCEPT ![i] = "raised"]
            /\ ev' = Ev("init", i, "raised", addr, None)
            /\ is_master' = is_master
       ELSE /\ tpc' = [tpc EXCEPT ![i] = IF bind THEN "accept" ELSE "connect"]
            /\ is_master' = [is_master EXCEPT ![i] = TRUE]
            /\ ev' = Ev("init", i, "pending", addr, None)
    /\ UNCHANGED <<conn, rpc, regs, clock, got_version, last_recv_ts, recvq, quitting,
                   rcur, net, hist, ticksLeft>>

\* bind, listen and accept, or connect, return or raise OSError (they may also
\* not return: accept waits for a peer); then the receiver thread is started.
\* When connect raises, self.connection is the socket that did not connect.
Connect(i) ==
    /\ tpc[i] \in {"accept", "connect"}
    /\ \/ /\ tpc' = [tpc EXCEPT ![i] = "idle"]
          /\ is_master' = [is_master EXCEPT ![i] = (tpc[i] = "accept")]
          /\ conn' = [j \in Sides |-> "open"]
          /\ rpc' = [rpc EXCEPT ![i] = "version"]
          /\ ev' = Ev("init", i, "connected", ev.inp, None)
       \/ /\ tpc' = [tpc EXCEPT ![i] = "raised"]
          /\ conn' = [conn EXCEPT ![i] = IF tpc[i] = "connect" THEN "closed" ELSE @]
          /\ ev' = Ev("init", i, "raised", ev.inp, None)
          /\ UNCHANGED <<is_master, rpc>>
    /\ UNCHANGED <<regs, clock, got_version, last_recv_ts, recvq, quitting, rcur, net,
                   hist, ticksLeft>>

\* The CPU's stores to the SB and SC registers (plain attributes of Serial).
WriteRegisters(i, sb, sc) ==
    /\ tpc[i] = "idle"
    /\ ~regWritten[i]
    /\ regWritten' = [regWritten EXCEPT ![i] = TRUE]
    /\ SB' = [SB EXCEPT ![i] = sb]
    /\ SC' = [SC EXCEPT ![i] = sc]
    /\ ev' = Ev("write", i, "", None, None)
    /\ UNCHANGED <<conn, is_master, trans_bits, clock, got_version, last_recv_ts, recvq,
                   quitting, tpc, rpc, rcur, net, ticksLeft, completions>>

\* ------------------------------------------------------------ tick
\* tick() runs in steps, since the receiver thread runs between them (tick
\* prints between its clock update and its tests): the clock update and the
\* threshold test, which use only what the main thread writes (TickStart); the
\* synchronizer test, which reads _last_received_timestamp (TickGate); the
\* send (TickSend); the take from the queue and the shift into SB (TickGet);
\* the end of a byte, which writes SC (TickFinish).
CyclesTarget == CPU_FREQ \div SERIAL_FREQ

Max(a, b) == IF a >= b THEN a ELSE b

\* cycles_to_transmit(), with the cycle count already advanced to cc.
CyclesToTransmit(i, cc) ==
    IF conn[i] # "none" /\ ClockBit(SC[i]) = 1
    THEN Max(CyclesTarget - cc, 0)
    ELSE NoTransmit

\* Variant: the excess over the window is dropped.
AdvanceMut(tsc, ts, c) ==
    IF tsc + c >= TsWindow THEN <<0, TsInc(ts)>> ELSE <<tsc + c, ts>>

\* The timestamp window of tick: <<_ts_cycles, _timestamp>> after c cycles.
Advance(tsc, ts, c) ==
    IF tsc + c >= TsWindow THEN <<tsc + c - TsWindow, TsInc(ts)>> ELSE <<tsc + c, ts>>

\* Variant: the comparison is turned around.
DeferredMut(ts, last) == TsGreater(last, ts)

\* The synchronizer test of tick: TRUE when the transfer is deferred.
Deferred(ts, last) == TsGreater(ts, last)

\* Variant: the test for a missing connection is dropped.
IsDisabledMut(i) == FALSE

\* The test "self.connection is None" of tick.
IsDisabled(i) == conn[i] = "none"

\* tick() up to "if self.cycles_to_transmit() == 0".
TickStart(i, c) ==
    /\ tpc[i] = "idle"
    /\ ticksLeft[i] > 0
    /\ ticksLeft' = [ticksLeft EXCEPT ![i] = @ - 1]
    /\ IF IsDisabled(i)
       THEN /\ SB' = [SB EXCEPT ![i] = 255]
            /\ ev' = Ev("tick", i, "none", <<c>>, None)
            /\ UNCHANGED <<clock, tpc>>
       ELSE LET cc == cycles_count[i] + c
                adv == Advance(ts_cycles[i], timestamp[i], c)
            IN /\ cycles_count' = [cycles_count EXCEPT ![i] = cc]
               /\ ts_cycles' = [ts_cycles EXCEPT ![i] = adv[1]]
               /\ timestamp' = [timestamp EXCEPT ![i] = adv[2]]
               /\ SB' = SB
               /\ IF CyclesToTransmit(i, cc) = 0
                  THEN /\ tpc' = [tpc EXCEPT ![i] = "gate"]
                       /\ ev' = Ev("tick", i, "boundary", <<c>>, None)
                  ELSE /\ tpc' = tpc
                       /\ ev' = Ev("tick", i, "none", <<c>>, None)
    /\ UNCHANGED <<conn, is_master, SC, trans_bits, got_version, last_recv_ts, recvq,
                   quitting, rpc, rcur, net, hist>>

\* "if self._timestamp > self._last_received_timestamp: return False", and the
\* test of SC bit 7 before send_bit.
TickGate(i) ==
    /\ tpc[i] = "gate"
    /\ IF Deferred(timestamp[i], last_recv_ts[i])
       THEN /\ tpc' = [tpc EXCEPT ![i] = "idle"]
            /\ ev' = Ev("gate", i, "none", None, None)
       ELSE /\ tpc' = [tpc EXCEPT ![i] = IF ClockBit(SC[i]) = 1 THEN "send" ELSE "get"]
            /\ ev' = Ev("gate", i, "pending", None, None)
    /\ UNCHANGED <<conn, is_master, regs, clock, got_version, last_recv_ts, recvq,
                   quitting, rpc, rcur, net, hist, ticksLeft>>

SendBitPacket(i) == Pack(SyncKind(i), TopBit(SB[i]), SC[i], 0, timestamp[i])

\* send_bit(): the connection.send of the main thread completes.
TickSend(i) ==
    /\ tpc[i] = "send"
    /\ IF conn[i] = "open" /\ PackOK(SyncKind(i), TopBit(SB[i]), SC[i], 0, timestamp[i])
       THEN \/ /\ conn[Peer(i)] = "open"
               /\ flight' = Sent(flight, i, SendBitPacket(i))
               /\ tpc' = [tpc EXCEPT ![i] = "get"]
               /\ ev' = Ev("send_bit", i, "sent", None, SendBitPacket(i))
            \/ /\ conn[Peer(i)] # "open"
               /\ flight' = flight
               /\ \/ /\ tpc' = [tpc EXCEPT ![i] = "get"]
                     /\ ev' = Ev("send_bit", i, "sent", None, SendBitPacket(i))
                  \/ /\ tpc' = [tpc EXCEPT ![i] = "raised"]
                     /\ ev' = Ev("send_bit", i, "raised", None, None)
       ELSE /\ flight' = flight
            /\ tpc' = [tpc EXCEPT ![i] = "raised"]
            /\ ev' = Ev("send_bit", i, "raised", None, None)
    /\ UNCHANGED <<conn, is_master, regs, clock, got_version, last_recv_ts, recvq,
                   quitting, rpc, rcur, hist, ticksLeft>>
    /\ UNCHANGED wire

\* Variant: the transfer counts as complete after 4 bits.
TransferDoneMut(tb) == tb = 4

\* The test "self.trans_bits == 8" of tick.
TransferDone(tb) == tb = 8

\* Variant: the cycle count is kept after a transfer.
CyclesAfterTransferMut(cc) == cc

\* self.cycles_count after a bit transfer.
CyclesAfterTransfer(cc) == 0

\* tick() from recv.get() to the test of trans_bits; it returns False unless
\* the byte is complete.
TickGet(i) ==
    /\ tpc[i] = "get"
    /\ recvq[i] # << >>
    /\ LET byte == Head(recvq[i])[1]
           done == TransferDone(trans_bits[i] + 1)
       IN /\ recvq' = [recvq EXCEPT ![i] = Tail(@)]
          /\ SB' = [SB EXCEPT ![i] = ShiftIn(@, byte)]
          /\ cycles_count' = [cycles_count EXCEPT ![i] = CyclesAfterTransfer(@)]
          /\ trans_bits' = [trans_bits EXCEPT ![i] = @ + 1]
          /\ tpc' = [tpc EXCEPT ![i] = IF done THEN "finish" ELSE "idle"]
          /\ ev' = Ev("get", i, IF done THEN "last" ELSE "none", None, None)
    /\ UNCHANGED <<conn, is_master, SC, timestamp, ts_cycles, got_version, last_recv_ts,
                   quitting, rpc, rcur, net, hist, ticksLeft>>

\* The end of a byte: trans_bits = 0, SC &= 0x7F, return True.
TickFinish(i) ==
    /\ tpc[i] = "finish"
    /\ trans_bits' = [trans_bits EXCEPT ![i] = 0]
    /\ SC' = [SC EXCEPT ![i] = ClearStart(@)]
    /\ completions' = [completions EXCEPT ![i] = @ + 1]
    /\ tpc' = [tpc EXCEPT ![i] = "idle"]
    /\ ev' = Ev("finish", i, "complete", None, None)
    /\ UNCHANGED <<conn, is_master, SB, clock, got_version, last_recv_ts, recvq,
                   quitting, rpc, rcur, net, regWritten, ticksLeft>>


\* ------------------------------------------------------------ receiver thread
\* The Version packet recv_thread sends before its loop.
RecvStart(i) ==
    /\ rpc[i] = "version"
    /\ IF conn[i] = "open"
       THEN \/ /\ conn[Peer(i)] = "open"
               /\ flight' = Sent(flight, i, VersionPacket)
               /\ rpc' = [rpc EXCEPT ![i] = "loop"]
               /\ ev' = Ev("version", i, "sent", None, VersionPacket)
            \/ /\ conn[Peer(i)] # "open"
               /\ flight' = flight
               /\ \/ /\ rpc' = [rpc EXCEPT ![i] = "loop"]
                     /\ ev' = Ev("version", i, "sent", None, VersionPacket)
                  \/ /\ rpc' = [rpc EXCEPT ![i] = "fault"]
                     /\ ev' = Ev("version", i, "raised", None, None)
       ELSE /\ flight' = flight
            /\ rpc' = [rpc EXCEPT ![i] = "fault"]
            /\ ev' = Ev("version", i, "raised", None, None)
    /\ UNCHANGED <<conn, is_master, regs, clock, got_version, last_recv_ts, recvq,
                   quitting, tpc, rcur, hist, ticksLeft>>
    /\ UNCHANGED wire

\* The loop test "while not self.quitting" passes.
RecvTest(i) ==
    /\ rpc[i] = "loop"
    /\ ~quitting[i]
    /\ rpc' = [rpc EXCEPT ![i] = "enter"]
    /\ ev' = Ev("recv", i, "test", None, None)
    /\ UNCHANGED <<conn, is_master, regs, clock, got_version, last_recv_ts, recvq,
                   quitting, tpc, rcur, net, hist, ticksLeft>>

\* The loop test fails.
RecvQuit(i) ==
    /\ rpc[i] = "loop"
    /\ quitting[i]
    /\ rpc' = [rpc EXCEPT ![i] = "done"]
    /\ ev' = Ev("recv", i, "quit", None, None)
    /\ UNCHANGED <<conn, is_master, regs, clock, got_version, last_recv_ts, recvq,
                   quitting, tpc, rcur, net, hist, ticksLeft>>

\* The thread calls connection.recv on its open socket, where it waits.
RecvEnter(i) ==
    /\ rpc[i] = "enter"
    /\ conn[i] = "open"
    /\ rpc' = [rpc EXCEPT ![i] = "recv"]
    /\ ev' = Ev("recv", i, "wait", None, None)
    /\ UNCHANGED <<conn, is_master, regs, clock, got_version, last_recv_ts, recvq,
                   quitting, tpc, rcur, net, hist, ticksLeft>>

\* The thread calls connection.recv on a socket this side has closed (OSError),
\* or on self.connection = None (AttributeError): the loop catches neither.
RecvBadSocket(i) ==
    /\ rpc[i] = "enter"
    /\ conn[i] # "open"
    /\ rpc' = [rpc EXCEPT ![i] = "fault"]
    /\ ev' = Ev("recv", i, "raised", None, None)
    /\ UNCHANGED <<conn, is_master, regs, clock, got_version, last_recv_ts, recvq,
                   quitting, tpc, rcur, net, hist, ticksLeft>>

\* Variant: the timestamp is recorded for the handled kinds only.
NewLastTimestampMut(i, u) == IF u.kind \in Handlers THEN u.ts ELSE last_recv_ts[i]

\* self._last_received_timestamp after a packet was unpacked.
NewLastTimestamp(i, u) == u.ts

\* connection.recv returns the oldest bytes that have arrived, p (also when the
\* peer has closed since it sent them, and when stop() has closed the socket
\* under the waiting thread): unpack, record the timestamp, enter the handler.
RecvPacket(i) ==
    /\ rpc[i] = "recv"
    /\ wire[i] # << >>
    /\ wire' = [wire EXCEPT ![i] = Tail(@)]
    /\ LET p == Head(wire[i])
       IN IF Len(p) # PACKET_SIZE_BYTES
          THEN /\ rpc' = [rpc EXCEPT ![i] = "fault"]
               /\ ev' = Ev("recv", i, "raised", p, None)
               /\ UNCHANGED <<last_recv_ts, got_version, rcur>>
          ELSE LET u == Unpack(p)
                   to == Dispatch(i, u)
               IN /\ last_recv_ts' = [last_recv_ts EXCEPT ![i] = NewLastTimestamp(i, u)]
                  /\ rpc' = [rpc EXCEPT ![i] = to]
                  /\ got_version' = [got_version EXCEPT ![i] = GotVersion(i, u)]
                  /\ rcur' = [rcur EXCEPT ![i] =
                                 IF to \in {"handle", "stamp"}
                                 THEN [NoPacket EXCEPT !.pkt = p]
                                 ELSE NoPacket]
                  /\ ev' = Ev("recv", i, IF to = "fault" THEN "raised"
                                         ELSE IF to = "loop" THEN "noreply" ELSE "read",
                              p, None)
    /\ UNCHANGED <<conn, is_master, regs, clock, recvq, quitting, tpc, flight, hist,
                   ticksLeft>>

\* Inside the handler of a Sync packet (_client_data_handler: read SB, put on
\* self.recv) or of WantDisconnect (close the socket; AttributeError when
\* stop() has set self.connection to None).
RecvHandle(i) ==
    /\ rpc[i] = "handle"
    /\ LET u == Unpack(rcur[i].pkt)
       IN IF u.kind = 109
          THEN /\ IF conn[i] = "none"
                  THEN /\ rpc' = [rpc EXCEPT ![i] = "fault"]
                       /\ conn' = conn
                       /\ ev' = Ev("handle", i, "raised", rcur[i].pkt, None)
                  ELSE /\ rpc' = [rpc EXCEPT ![i] = "loop"]
                       /\ conn' = [conn EXCEPT ![i] = "closed"]
                       /\ ev' = Ev("handle", i, "closed", rcur[i].pkt, None)
               /\ rcur' = [rcur EXCEPT ![i] = NoPacket]
               /\ recvq' = recvq
          ELSE /\ recvq' = [recvq EXCEPT ![i] = ClientDataPut(@, u)]
               /\ rcur' = [rcur EXCEPT ![i].bit = ClientDataHandler(i)]
               /\ rpc' = [rpc EXCEPT ![i] = "pack"]
               /\ conn' = conn
               /\ ev' = Ev("handle", i, "queued", rcur[i].pkt, None)
    /\ UNCHANGED <<is_master, regs, clock, got_version, last_recv_ts, quitting, tpc,
                   net, hist, ticksLeft>>

\* The struct.pack call of _handle_sync1/2 evaluates self.SC ...
RecvPack(i) ==
    /\ rpc[i] = "pack"
    /\ rcur' = [rcur EXCEPT ![i].sc = SC[i]]
    /\ rpc' = [rpc EXCEPT ![i] = "stamp"]
    /\ ev' = Ev("pack", i, "read", rcur[i].pkt, None)
    /\ UNCHANGED <<conn, is_master, regs, clock, got_version, last_recv_ts, recvq,
                   quitting, tpc, net, hist, ticksLeft>>

\* ... then self._timestamp, as every handler that replies does, and packs:
\* struct.error when a field does not fit.
RecvStamp(i) ==
    /\ rpc[i] = "stamp"
    /\ LET f == ResponseFields(i, Unpack(rcur[i].pkt), rcur[i].bit, rcur[i].sc)
       IN IF PackFieldsOK(f)
          THEN /\ rcur' = [rcur EXCEPT ![i].resp = PackFields(f)]
               /\ rpc' = [rpc EXCEPT ![i] = "send"]
               /\ ev' = Ev("stamp", i, "packed", rcur[i].pkt, None)
          ELSE /\ rcur' = [rcur EXCEPT ![i] = NoPacket]
               /\ rpc' = [rpc EXCEPT ![i] = "fault"]
               /\ ev' = Ev("stamp", i, "raised", rcur[i].pkt, None)
    /\ UNCHANGED <<conn, is_master, regs, clock, got_version, last_recv_ts, recvq,
                   quitting, tpc, net, hist, ticksLeft>>

\* self.connection.send(response): AttributeError or OSError when this side has
\* no open socket; when the peer is gone the send succeeds, or raises
\* ConnectionResetError (caught: the loop breaks) or BrokenPipeError (not caught).
RecvSend(i) ==
    /\ rpc[i] = "send"
    /\ rcur' = [rcur EXCEPT ![i] = NoPacket]
    /\ IF conn[i] = "open"
       THEN \/ /\ conn[Peer(i)] = "open"
               /\ flight' = Sent(flight, i, rcur[i].resp)
               /\ rpc' = [rpc EXCEPT ![i] = "loop"]
               /\ ev' = Ev("reply", i, "sent", rcur[i].pkt, rcur[i].resp)
            \/ /\ conn[Peer(i)] # "open"
               /\ flight' = flight
               /\ \/ /\ rpc' = [rpc EXCEPT ![i] = "loop"]
                     /\ ev' = Ev("reply", i, "sent", rcur[i].pkt, rcur[i].resp)
                  \/ /\ rpc' = [rpc EXCEPT ![i] = "done"]
                     /\ ev' = Ev("reply", i, "break", rcur[i].pkt, None)
                  \/ /\ rpc' = [rpc EXCEPT ![i] = "fault"]
                     /\ ev' = Ev("reply", i, "raised", rcur[i].pkt, None)
       ELSE /\ flight' = flight
            /\ rpc' = [rpc EXCEPT ![i] = "fault"]
            /\ ev' = Ev("reply", i, "raised", rcur[i].pkt, None)
    /\ UNCHANGED <<conn, is_master, regs, clock, got_version, last_recv_ts, recvq,
                   quitting, tpc, hist, ticksLeft>>
    /\ UNCHANGED wire

\* connection.recv has nothing left to return and returns b"" (the peer closed)
\* or raises ConnectionResetError: the loop breaks.
RecvEof(i) ==
    /\ rpc[i] = "recv"
    /\ wire[i] = << >>
    /\ conn[Peer(i)] # "open"
    /\ rpc' = [rpc EXCEPT ![i] = "done"]
    /\ ev' = Ev("recv", i, "break", None, None)
    /\ UNCHANGED <<conn, is_master, regs, clock, got_version, last_recv_ts, recvq,
                   quitting, tpc, rcur, net, hist, ticksLeft>>

\* ------------------------------------------------------------ stop
\* stop(): self.quitting = True and the close of the socket, if there is one.
Stop(i) ==
    /\ tpc[i] = "idle"
    /\ quitting' = [quitting EXCEPT ![i] = TRUE]
    /\ conn' = [conn EXCEPT ![i] = IF @ = "none" THEN "none" ELSE "closed"]
    /\ tpc' = [tpc EXCEPT ![i] = "closing"]
    /\ ev' = Ev("stop", i, "closing", None, None)
    /\ UNCHANGED <<is_master, regs, clock, got_version, last_recv_ts, recvq, rpc, rcur,
                   net, hist, ticksLeft>>

\* self.connection = None, and the call of recv_t.join(): a device that never
\* connected has no recv_t (AttributeError).
StopClear(i) ==
    /\ tpc[i] = "closing"
    /\ conn' = [conn EXCEPT ![i] = "none"]
    /\ tpc' = [tpc EXCEPT ![i] = IF rpc[i] = "none" THEN "raised" ELSE "join"]
    /\ ev' = Ev("stop", i, IF rpc[i] = "none" THEN "raised" ELSE "joining", None, None)
    /\ UNCHANGED <<is_master, regs, clock, got_version, last_recv_ts, recvq, quitting,
                   rpc, rcur, net, hist, ticksLeft>>

\* recv_t.join() returns once the receiver thread has ended.
StopJoin(i) ==
    /\ tpc[i] = "join"
    /\ rpc[i] \in {"done", "fault"}
    /\ tpc' = [tpc EXCEPT ![i] = "stopped"]
    /\ ev' = Ev("stop", i, "joined", None, None)
    /\ UNCHANGED <<conn, is_master, regs, clock, got_version, last_recv_ts, recvq,
                   quitting, rpc, rcur, net, hist, ticksLeft>>

\* ------------------------------------------------------------ one device and an arbitrary peer
Dev == 1
Env == 2

IsSync(p) == Len(p) = PACKET_SIZE_BYTES /\ p[1] \in {104, 105}

\* The Sync packets that wait for side i: the items on its queue, and the
\* packet its receiver thread is about to put there.
SyncsWaiting(i) ==
    Len(recvq[i]) + (IF rpc[i] = "handle" /\ IsSync(rcur[i].pkt) THEN 1 ELSE 0)

\* The Sync packets that have reached side i: those that wait and those its
\* ticks have taken from the queue.
SyncsArrived(i) == SyncsWaiting(i) + 8 * completions[i] + trans_bits[i]

\* self.recv is unbounded, and every Sync packet that arrives adds an item to
\* it.  The connection is followed while the packets reach side i one at a
\* time (the next when the last is read), and a Sync packet while there is
\* room for it; the bytes that have arrived are always read.
Room(i, p, room) ==
    /\ wire[i] = << >>
    /\ IsSync(p) => room > 0

\* Room while fewer than cap Sync packets wait for side i.
QueueRoom(i, cap) == cap - SyncsWaiting(i)

\* The peer sends the bytes p and they arrive at the device's socket, where
\* they wait for connection.recv.
EnvSend(p) ==
    /\ conn[Env] = "open"
    /\ Room(Dev, p, QueueRoom(Dev, MaxQueue))
    /\ wire' = [wire EXCEPT ![Dev] = Append(@, p)]
    /\ ev' = [op |-> "peer", side |-> Env, ret |-> "sent", inp |-> p, tx |-> None]
    /\ UNCHANGED <<conn, is_master, regs, clock, got_version, last_recv_ts, recvq,
                   quitting, tpc, rpc, rcur, flight, hist, ticksLeft>>

\* The peer closes or resets the connection.
EnvClose(how) ==
    /\ conn[Env] = "open"
    /\ conn' = [conn EXCEPT ![Env] = "gone"]
    /\ ev' = [op |-> "peer", side |-> Env, ret |-> how, inp |-> None, tx |-> None]
    /\ UNCHANGED <<is_master, regs, clock, got_version, last_recv_ts, recvq, quitting,
                   tpc, rpc, rcur, net, hist, ticksLeft>>

\* A Serial object about to be constructed, with n ticks to come.
NewDevice(n) ==
    /\ Fields0
    /\ conn = [i \in Sides |-> "none"]
    /\ is_master = [i \in Sides |-> "unset"]
    /\ tpc = [i \in Sides |-> IF i = Dev THEN "new" ELSE "peer"]
    /\ rpc = [i \in Sides |-> IF i = Dev THEN "none" ELSE "peer"]
    /\ ticksLeft = [i \in Sides |-> IF i = Dev THEN n ELSE 0]
    /\ ev = Quiet

Init == NewDevice(MaxTicks)

\* A byte takes eight ticks, more than MaxTicks: the end of a byte (TickFinish)
\* is followed in SpecTransfer and SpecLink.
Next ==
    \/ \E addr \in Addresses, bind \in BOOLEAN : Construct(Dev, addr, bind)
    \/ Connect(Dev)
    \/ \E r \in RegInputs : WriteRegisters(Dev, r[1], r[2])
    \/ \E c \in CycleInputs : TickStart(Dev, c)
    \/ TickGate(Dev)
    \/ TickSend(Dev)
    \/ TickGet(Dev)
    \/ RecvStart(Dev)
    \/ RecvTest(Dev)
    \/ RecvQuit(Dev)
    \/ RecvEnter(Dev)
    \/ RecvBadSocket(Dev)
    \/ \E p \in EnvPackets : EnvSend(p)
    \/ RecvPacket(Dev)
    \/ RecvHandle(Dev)
    \/ RecvPack(Dev)
    \/ RecvStamp(Dev)
    \/ RecvSend(Dev)
    \/ RecvEof(Dev)
    \/ Stop(Dev)
    \/ StopClear(Dev)
    \/ StopJoin(Dev)
    \/ \E how \in {"closed", "reset"} : EnvClose(how)

Spec == Init /\ [][Next]_vars

\* ------------------------------------------------------------ a device that does not connect
\* The constructor returns early, raises, or waits in accept or connect; the
\* main loop writes the registers, ticks and stops the device.
DisabledCycleInputs == {0, 257, CPU_FREQ \div SERIAL_FREQ, NoTransmit, TsWindow}
DisabledRegInputs == {<<165, 129>>, <<0, 128>>, <<255, 1>>}

NextDisabled ==
    \/ \E addr \in Addresses, bind \in BOOLEAN : Construct(Dev, addr, bind)
    \/ \E r \in DisabledRegInputs : WriteRegisters(Dev, r[1], r[2])
    \/ \E c \in DisabledCycleInputs : TickStart(Dev, c)
    \/ Stop(Dev)
    \/ StopClear(Dev)

InitDisabled == NewDevice(MaxDisabledTicks)

SpecDisabled == InitDisabled /\ [][NextDisabled]_vars

\* ------------------------------------------------------------ two linked devices
Master == 1
Slave == 2

\* The connection delivers the oldest packet in flight to side i: it arrives
\* at the socket of side i, where it waits for connection.recv.  Both sides
\* answer every Sync packet with a Sync packet (_handle_sync1, _handle_sync2),
\* without end, so the queues grow as long as the connection delivers.
Arrive(i, room) ==
    /\ flight[i] # << >>
    /\ Room(i, Head(flight[i]), room)
    /\ wire' = [wire EXCEPT ![i] = Append(@, Head(flight[i]))]
    /\ flight' = [flight EXCEPT ![i] = Tail(@)]
    /\ ev' = Ev("arrive", i, "", None, None)
    /\ UNCHANGED <<conn, is_master, regs, clock, got_version, last_recv_ts, recvq,
                   quitting, tpc, rpc, rcur, hist, ticksLeft>>

\* The Master takes an item from its queue in every tick; the Slave, whose SC
\* has bit 7 clear, takes none, and its queue holds an item for every bit of
\* the byte.
LinkArrive(i) ==
    Arrive(i, QueueRoom(i, IF i = Master THEN MaxLinkQueue ELSE MaxPeerQueue))

\* Two Serial objects after construction: side 1 bound and accepted (is_master),
\* side 2 connected to it.
Linked0 ==
    /\ conn = [i \in Sides |-> "open"]
    /\ is_master = [i \in Sides |-> i = Master]
    /\ tpc = [i \in Sides |-> "idle"]
    /\ rpc = [i \in Sides |-> "version"]
    /\ ev = Quiet

InitLink ==
    /\ SB = [i \in Sides |-> IF i = Master THEN 165 ELSE 0]
    /\ SC = [i \in Sides |-> IF i = Master THEN 129 ELSE 0]
    /\ regWritten = [i \in Sides |-> TRUE]
    /\ Clock0
    /\ Linked0
    /\ ticksLeft = [i \in Sides |-> IF i = Master THEN MaxLinkTicks ELSE MaxPeerTicks]

\* The steps of the main thread of side i in tick.
TickSteps(i) ==
    \/ TickGate(i)
    \/ TickSend(i)
    \/ TickGet(i)
    \/ TickFinish(i)

\* The steps of the receiver thread of side i on a connection that stays open.
RecvSteps(i) ==
    \/ RecvStart(i)
    \/ RecvTest(i)
    \/ RecvEnter(i)
    \/ RecvPacket(i)
    \/ RecvHandle(i)
    \/ RecvPack(i)
    \/ RecvStamp(i)
    \/ RecvSend(i)

NextLink ==
    \E i \in Sides :
        \/ \E c \in LinkCycleInputs : TickStart(i, c)
        \/ TickSteps(i)
        \/ RecvSteps(i)
        \/ LinkArrive(i)

SpecLink == InitLink /\ [][NextLink]_vars

\* ------------------------------------------------------------ two linked devices, fairly scheduled
\* Both main threads tick one bit time at a time; the Slave's SC has bit 7
\* clear or set, so that both sides may send at the same time.  The connection
\* delivers MaxFairSyncs Sync packets to each side, one for every tick of the
\* side (MaxFairSyncs >= MaxFairTicks): with fewer a packet could be held back
\* while a tick waits for its item.
FairArrive(i) == Arrive(i, MaxFairSyncs - SyncsArrived(i))

InitLinkFair ==
    /\ SB = [i \in Sides |-> IF i = Master THEN 165 ELSE 60]
    /\ \E sc \in {0, 129} : SC = [i \in Sides |-> IF i = Master THEN 129 ELSE sc]
    /\ regWritten = [i \in Sides |-> TRUE]
    /\ Clock0
    /\ Linked0
    /\ ticksLeft = [i \in Sides |-> MaxFairTicks]

\* The steps of the main thread of side i inside a tick that does not end a byte.
FairTickSteps(i) ==
    \/ TickGate(i)
    \/ TickSend(i)
    \/ TickGet(i)

\* The steps of the receiver thread of side i and of the connection towards it.
FairRecvSteps(i) ==
    \/ RecvSteps(i)
    \/ FairArrive(i)

NextLinkFair ==
    \E i \in Sides :
        \/ \E c \in LinkCycleInputs : TickStart(i, c)
        \/ FairTickSteps(i)
        \/ FairRecvSteps(i)

\* The threads of both sides keep running and the connection delivers: a step
\* a thread can take it takes, a receiver thread that can read a packet reads
\* it, a main thread waiting on a non-empty queue takes the item.
LinkFairness ==
    \A i \in Sides : WF_vars(FairTickSteps(i)) /\ WF_vars(FairRecvSteps(i))

SpecLinkFair == InitLinkFair /\ [][NextLinkFair]_vars /\ LinkFairness

\* ------------------------------------------------------------ the handshake of two linked devices
\* Two Serial objects right after construction, no transfer started (SB = SC =
\* 0): the receiver threads exchange Version and Status packets while the main
\* threads tick a timestamp window at a time.
HandshakeCycleInputs == {TsWindow}

InitHandshake ==
    /\ Fields0
    /\ Linked0
    /\ ticksLeft = [i \in Sides |-> MaxHandshakeTicks]

\* The steps of a receiver thread that reads no Sync packet, and of the
\* connection towards it.
HandshakeSteps(i) ==
    \/ RecvStart(i)
    \/ RecvTest(i)
    \/ RecvEnter(i)
    \/ RecvPacket(i)
    \/ RecvStamp(i)
    \/ RecvSend(i)
    \/ FairArrive(i)

NextHandshake ==
    \E i \in Sides :
        \/ \E c \in HandshakeCycleInputs : TickStart(i, c)
        \/ HandshakeSteps(i)

\* Both receiver threads keep running and the connection delivers.
HandshakeFairness == \A i \in Sides : WF_vars(HandshakeSteps(i))

SpecHandshake == InitHandshake /\ [][NextHandshake]_vars /\ HandshakeFairness

\* ------------------------------------------------------------ the clock of a connected device
\* A connected device long after power-on: _timestamp is 0 or 2^31 - 2, which
\* the code reaches after that many timestamp windows.
TsNearWrap == <<32767, 65534>>

\* What the peer sends here: a Status packet, and a Sync packet whose timestamp
\* is 2^31.
ClockPackets == {Pack(108, 1, 0, 0, Ts(0)), Pack(104, 1, 129, 0, <<32768, 0>>)}

\* A Serial object after a construction that connected (as Master), with the
\* registers at sb and sc, _timestamp at t and n ticks to come.
ConnectedDevice(sb, sc, t, n) ==
    /\ SB = [i \in Sides |-> IF i = Dev THEN sb ELSE 0]
    /\ SC = [i \in Sides |-> IF i = Dev THEN sc ELSE 0]
    /\ regWritten = [i \in Sides |-> i = Dev]
    /\ trans_bits = [i \in Sides |-> 0]
    /\ cycles_count = [i \in Sides |-> 0]
    /\ timestamp = [i \in Sides |-> IF i = Dev THEN t ELSE Ts(0)]
    /\ ts_cycles = [i \in Sides |-> 0]
    /\ got_version = [i \in Sides |-> FALSE]
    /\ last_recv_ts = [i \in Sides |-> Ts(0)]
    /\ recvq = [i \in Sides |-> << >>]
    /\ quitting = [i \in Sides |-> FALSE]
    /\ rcur = [i \in Sides |-> NoPacket]
    /\ wire = [i \in Sides |-> << >>]
    /\ flight = [i \in Sides |-> << >>]
    /\ completions = [i \in Sides |-> 0]
    /\ conn = [i \in Sides |-> "open"]
    /\ is_master = [i \in Sides |-> IF i = Dev THEN TRUE ELSE "unset"]
    /\ tpc = [i \in Sides |-> IF i = Dev THEN "idle" ELSE "peer"]
    /\ rpc = [i \in Sides |-> IF i = Dev THEN "version" ELSE "peer"]
    /\ ticksLeft = [i \in Sides |-> IF i = Dev THEN n ELSE 0]
    /\ ev = Quiet

InitClock ==
    \E sc \in {0, 129}, t \in {Ts(0), TsNearWrap} : ConnectedDevice(165, sc, t, MaxClockTicks)

NextClock ==
    \/ \E c \in ClockCycleInputs : TickStart(Dev, c)
    \/ TickGate(Dev)
    \/ TickSend(Dev)
    \/ TickGet(Dev)
    \/ RecvSteps(Dev)
    \/ \E p \in ClockPackets : EnvSend(p)

SpecClock == InitClock /\ [][NextClock]_vars

\* ------------------------------------------------------------ the ticks of a connected device
\* A connected device with a transfer started or not, and a peer whose packets
\* move _last_received_timestamp up and down and fill the queue.
TickPackets ==
    {Pack(104, 1, 129, 0, Ts(0)), Pack(105, 1, 129, 0, Ts(2)),
     Pack(7, 1, 0, 0, Ts(0)), Pack(7, 1, 0, 0, Ts(2))}

InitTick == \E sc \in {1, 129} : ConnectedDevice(165, sc, Ts(0), MaxTicks)

NextTick ==
    \/ \E c \in CycleInputs : TickStart(Dev, c)
    \/ TickGate(Dev)
    \/ TickSend(Dev)
    \/ TickGet(Dev)
    \/ RecvSteps(Dev)
    \/ \E p \in TickPackets : EnvSend(p)

SpecTick == InitTick /\ [][NextTick]_vars

\* ------------------------------------------------------------ the receiver thread of a connected device
\* A device that has connected, as Master or as Slave, and a peer that sends
\* packets of every kind, while the main thread writes the registers and ticks.
\* A WantDisconnect packet makes the thread close its socket and fail in the
\* next connection.recv.
InitRecv ==
    /\ Fields0
    /\ conn = [i \in Sides |-> "open"]
    /\ \E m \in BOOLEAN : is_master = [i \in Sides |-> IF i = Dev THEN m ELSE "unset"]
    /\ tpc = [i \in Sides |-> IF i = Dev THEN "idle" ELSE "peer"]
    /\ rpc = [i \in Sides |-> IF i = Dev THEN "version" ELSE "peer"]
    /\ ticksLeft = [i \in Sides |-> IF i = Dev THEN MaxRecvTicks ELSE 0]
    /\ ev = Quiet

NextRecv ==
    \/ \E r \in RegInputs : WriteRegisters(Dev, r[1], r[2])
    \/ \E c \in CycleInputs : TickStart(Dev, c)
    \/ TickGate(Dev)
    \/ TickSend(Dev)
    \/ TickGet(Dev)
    \/ RecvSteps(Dev)
    \/ RecvBadSocket(Dev)
    \/ \E p \in EnvPackets : EnvSend(p)

SpecRecv == InitRecv /\ [][NextRecv]_vars

\* ------------------------------------------------------------ one byte transfer
\* A connected device with a transfer started (SB = 0xA5, SC = 0x81) that ticks
\* one bit time at a time, and a peer that answers with Sync packets.
TransferCycleInputs == {CPU_FREQ \div SERIAL_FREQ}

TransferPackets == {Pack(105, 0, 0, 0, Ts(0)), Pack(105, 1, 0, 0, Ts(0))}

InitTransfer == ConnectedDevice(165, 129, Ts(0), MaxTransferTicks)

NextTransfer ==
    \/ \E c \in TransferCycleInputs : TickStart(Dev, c)
    \/ TickSteps(Dev)
    \/ RecvSteps(Dev)
    \/ \E p \in TransferPackets : EnvSend(p)

SpecTransfer == InitTransfer /\ [][NextTransfer]_vars

\* ------------------------------------------------------------ claims
RecvStep == ev'.op = "recv" /\ Len(ev'.inp) = PACKET_SIZE_BYTES
TickEntry == tpc[Dev] = "idle" /\ ev'.op = "tick"
IsMatchingVersion(p) ==
    Len(p) = PACKET_SIZE_BYTES /\ p[1] = 1 /\ <<p[2], p[3], p[4]>> = <<1, 4, 0>>
IsMismatchedVersion(p) ==
    Len(p) = PACKET_SIZE_BYTES /\ p[1] = 1 /\ <<p[2], p[3], p[4]>> # <<1, 4, 0>>
TsBytes(t) == SubSeq(Pack(0, 0, 0, 0, t), 5, 8)

\* C1: with two linked devices, the Master holding 0xA5 in SB and driving the
\* clock and the Slave receiving, once the Master has completed its 8 bit
\* transfers (and the Slave's scheduler has run) the Slave's SB is 0xA5, its SC
\* bit 7 is clear and its tick has signalled completion exactly once.
C1_EndToEndByte ==
    (completions[Master] = 1 /\ ticksLeft[Slave] = 0 /\ tpc[Slave] = "idle")
        => (SB[Slave] = 165 /\ ClockBit(SC[Slave]) = 0 /\ completions[Slave] = 1)

\* C2: a tick of a device that has no connection returns "no transfer", leaves
\* SB at 0xFF, sends nothing and does not wait on the queue.
C2_DisabledTick ==
    (ev.op = "tick" /\ conn[Dev] = "none")
        => (ev.ret = "none" /\ ev.tx = None /\ SB[Dev] = 255 /\ tpc[Dev] = "idle")

C2_Witness ==
    /\ ev.op = "tick" /\ conn[Dev] = "none" /\ rpc[Dev] = "none"
    /\ regWritten[Dev] /\ ticksLeft[Dev] = 0 /\ SB[Dev] = 255

\* C3: a tick of a connected device that reaches the bit boundary with the
\* local timestamp above the last received one returns "no transfer", sends
\* nothing, leaves the queue alone and does not wait; with the local timestamp
\* at or below it the transfer goes ahead, and a tick enters the transfer (the
\* send or the wait on the queue) in no other case.
C3_SynchronizerGate ==
    [][/\ (tpc[Dev] = "gate" /\ ev'.op = "gate")
          => IF TsGreater(timestamp[Dev], last_recv_ts[Dev])
             THEN /\ ev'.ret = "none" /\ ev'.tx = None /\ tpc'[Dev] = "idle"
                  /\ recvq' = recvq /\ net' = net
             ELSE ev'.ret = "pending" /\ tpc'[Dev] \in {"send", "get"}
       /\ (tpc[Dev] \notin {"send", "get"} /\ tpc'[Dev] \in {"send", "get"})
          => (tpc[Dev] = "gate" /\ ~TsGreater(timestamp[Dev], last_recv_ts[Dev]))
      ]_vars

C3_Witness ==
    /\ ev.op = "gate" /\ ev.ret = "none" /\ conn[Dev] = "open"
    /\ ClockBit(SC[Dev]) = 1 /\ cycles_count[Dev] >= CPU_FREQ \div SERIAL_FREQ
    /\ TsGreater(timestamp[Dev], last_recv_ts[Dev]) /\ recvq[Dev] # << >>
    /\ tpc[Dev] = "idle"

\* C4: when the receiver loop has ended while the scheduler waits on the queue,
\* the queue holds an item (the sentinel) that releases the scheduler.
C4_BlockedTickReleased ==
    (tpc[Dev] = "get" /\ rpc[Dev] = "done") => recvq[Dev] # << >>

\* C5: when the receiver loop ends on a zero-length read, a reset, a short
\* packet or after a WantDisconnect packet, it ends without a fault and the
\* device is Disabled (no connection).
LoopEndedByPeer ==
    /\ ~quitting[Dev]
    /\ \/ ev.op \in {"recv", "reply"} /\ ev.ret = "break"
       \/ ev.op = "recv" /\ ev.ret = "raised" /\ ev.inp # None
              /\ Len(ev.inp) < PACKET_SIZE_BYTES
       \/ ev.op = "recv" /\ ev.ret = "raised" /\ ev.inp = None /\ conn[Dev] = "closed"

C5_PeerEndDisables ==
    LoopEndedByPeer => (rpc[Dev] = "done" /\ conn[Dev] = "none")

\* C6: a Version packet with another version than (1,4,0) gets no Status reply,
\* the link is closed and the device Disabled, and the receiver thread does not
\* end by an uncaught exception.
C6_VersionMismatch ==
    (ev.op = "recv" /\ IsMismatchedVersion(ev.inp))
        => (rcur[Dev] = NoPacket /\ conn[Dev] = "none" /\ rpc[Dev] # "fault")

\* C7: the first matching Version packet is answered with Status
\* (running=1, paused=0, supportsReconnect=0) and sets _got_version; a matching
\* Version packet handled with _got_version set gets no reply; _got_version is
\* set by nothing else and never reset.
C7_OneStatusPerConnection ==
    [][/\ (RecvStep /\ IsMatchingVersion(ev'.inp) /\ ~got_version[Dev])
          => (rpc'[Dev] = "stamp" /\ rcur'[Dev].pkt = ev'.inp /\ got_version'[Dev])
       /\ (RecvStep /\ IsMatchingVersion(ev'.inp) /\ got_version[Dev])
          => (rpc'[Dev] = "loop" /\ rcur'[Dev] = NoPacket /\ ev'.ret = "noreply"
              /\ got_version'[Dev])
       /\ (ev'.op = "stamp" /\ IsMatchingVersion(ev'.inp))
          => (rpc'[Dev] = "send"
              /\ rcur'[Dev].resp = <<108, 1, 0, 0>> \o TsBytes(timestamp[Dev]))
       /\ (ev'.op = "reply" /\ ev'.ret = "sent") => ev'.tx = rcur[Dev].resp
       /\ got_version[Dev] => got_version'[Dev]
       /\ (got_version'[Dev] # got_version[Dev])
          => (RecvStep /\ IsMatchingVersion(ev'.inp))
      ]_vars

C7_Witness ==
    /\ ev.op = "recv" /\ IsMatchingVersion(ev.inp) /\ ev.tx = None
    /\ ev.ret = "noreply" /\ got_version[Dev] /\ rpc[Dev] = "loop"

\* C8: the two threads are never both inside a send on the connection: the
\* main thread in the send of send_bit, the receiver thread in the send of its
\* Version packet or of a reply.
C8_SendsExclusive ==
    ~(tpc[Dev] = "send" /\ rpc[Dev] \in {"version", "send"})

\* C9: construction with a non-empty address goes on to open a connection only
\* when the address has three dots and one colon, and otherwise leaves the
\* device Disabled, without raising.
C9_AddressCheck ==
    (ev.op = "init" /\ ev.inp # AddrNone)
        => LET wellFormed == Count(ev.inp, ".") = 3 /\ Count(ev.inp, ":") = 1
           IN /\ (ev.ret \in {"pending", "connected"}) => wellFormed
              /\ (~wellFormed) => ev.ret = "disabled"

\* C10: every 8-byte packet read sets _last_received_timestamp to its timestamp,
\* also when its handler raises; a packet of a kind without handler gets no
\* reply, queues nothing, changes nothing else and the loop goes on.
C10_TimestampAndUnknownKinds ==
    [][RecvStep
          => /\ last_recv_ts'[Dev] = Unpack(ev'.inp).ts
             /\ (Unpack(ev'.inp).kind \notin {1, 101, 104, 105, 106, 108, 109})
                => /\ ev'.tx = None /\ ev'.ret = "noreply" /\ rpc'[Dev] = "loop"
                   /\ rcur'[Dev] = NoPacket
                   /\ wire'[Dev] = Tail(wire[Dev])
                   /\ UNCHANGED <<conn, is_master, regs, clock, got_version, recvq,
                                  quitting, tpc, flight, hist, ticksLeft>>
      ]_vars

C10_Witness ==
    /\ ev.op = "recv" /\ Len(ev.inp) = PACKET_SIZE_BYTES /\ Unpack(ev.inp).kind = 7
    /\ last_recv_ts[Dev] = <<0, 2>> /\ rpc[Dev] = "loop" /\ recvq[Dev] # << >>

\* C11: stop() does not raise, whether the device is connected or was left
\* Disabled by the constructor and so never started a receiver thread.
C11_StopCompletes ==
    (ev.op = "stop") => ev.ret # "raised"

\* C12: every received Sync1 (104) or Sync2 (105) packet puts exactly one pair
\* (data byte, timestamp) of the packet at the end of the queue and is answered
\* by exactly one packet: kind 104 on the Master and 105 on the Slave, data the
\* top bit of SB when the handler reads it, control byte the SC and timestamp
\* the local timestamp when the reply is packed; nothing else puts on the queue.
C12_SyncEnqueuesAndReplies ==
    [][/\ (RecvStep /\ IsSync(ev'.inp))
          => (rpc'[Dev] = "handle" /\ rcur'[Dev].pkt = ev'.inp /\ recvq' = recvq)
       /\ (ev'.op = "handle" /\ IsSync(ev'.inp))
          => LET u == Unpack(ev'.inp)
             IN /\ recvq'[Dev] = Append(recvq[Dev], <<u.b2, u.ts>>)
                /\ rcur'[Dev].bit = (SB[Dev] \div 128) % 2
                /\ rpc'[Dev] = "pack"
       /\ (ev'.op = "pack") => (rcur'[Dev].sc = SC[Dev] /\ rpc'[Dev] = "stamp")
       /\ (ev'.op = "stamp" /\ IsSync(ev'.inp))
          => /\ rpc'[Dev] = "send"
             /\ rcur'[Dev].resp =
                    <<IF is_master[Dev] = TRUE THEN 104 ELSE 105,
                      rcur[Dev].bit, rcur[Dev].sc, 0>> \o TsBytes(timestamp[Dev])
       /\ (ev'.op = "reply" /\ IsSync(ev'.inp))
          => (rpc'[Dev] # "send"
              /\ (ev'.ret = "sent" => ev'.tx = rcur[Dev].resp))
       /\ (Len(recvq'[Dev]) > Len(recvq[Dev])) => ev'.op = "handle"
      ]_vars

C12_Witness ==
    /\ ev.op = "reply" /\ ev.ret = "sent" /\ Len(ev.inp) = PACKET_SIZE_BYTES
    /\ Unpack(ev.inp).kind = 105
    /\ is_master[Dev] = FALSE /\ regWritten[Dev]
    /\ ev.tx = <<105, 1, 129, 0, 0, 0, 0, 0>>
    /\ recvq[Dev] = << <<1, <<0, 2>> >> >>

\* C13: a tick of a connected device with c elapsed cycles and the accumulator
\* at a < 2^21 adds 1 to the local timestamp and leaves a + c - 2^21 in the
\* accumulator when a + c >= 2^21, and otherwise leaves the timestamp alone and
\* a + c in the accumulator, whether or not a transfer is active.
C13_ClockWrapStep ==
    [][(TickEntry /\ conn[Dev] # "none" /\ ts_cycles[Dev] < 2097152)
          => LET c == ev'.inp[1]
                 a == ts_cycles[Dev]
             IN IF a + c >= 2097152
                THEN /\ timestamp'[Dev] = TsInc(timestamp[Dev])
                     /\ ts_cycles'[Dev] = a + c - 2097152
                ELSE /\ timestamp'[Dev] = timestamp[Dev]
                     /\ ts_cycles'[Dev] = a + c
      ]_vars

C13_Witness ==
    /\ ev.op = "tick" /\ ev.inp = <<2097252>> /\ ts_cycles[Dev] = 100
    /\ timestamp[Dev] = <<0, 1>> /\ SC[Dev] = 129 /\ ticksLeft[Dev] = MaxClockTicks - 1

\* C14: on a connected device the accumulator is within [0, 2^21) after every
\* tick, for every sequence of elapsed-cycle counts.
C14_AccumulatorInWindow ==
    conn[Dev] # "none" => (ts_cycles[Dev] >= 0 /\ ts_cycles[Dev] < 2097152)

\* C15: the local timestamp stays below 2^31 (an increment from 2^31 - 1 wraps
\* to 0) and every packet the device sends has the top bit of its timestamp
\* word clear.
C15_TimestampWraps ==
    /\ timestamp[Dev][1] < 32768
    /\ (ev.tx # None) => ev.tx[8] < 128

\* C16: trans_bits stays within [0, 8]; the tick that performs the 8th bit
\* transfer returns "transfer complete", resets trans_bits to 0 and clears SC
\* bit 7; no other tick returns "transfer complete" and no other step changes
\* SC.
EighthTransfer == ticksLeft[Dev] = MaxTransferTicks - 8

C16_CompletionOnEighthBit ==
    [][/\ trans_bits'[Dev] >= 0 /\ trans_bits'[Dev] <= 8
       /\ (ev'.op = "get")
          => IF EighthTransfer
             THEN ev'.ret = "last" /\ tpc'[Dev] = "finish"
             ELSE ev'.ret = "none" /\ tpc'[Dev] = "idle"
       /\ (ev'.op = "finish")
          => /\ tpc[Dev] = "finish" /\ ev'.ret = "complete" /\ tpc'[Dev] = "idle"
             /\ EighthTransfer
             /\ trans_bits'[Dev] = 0
             /\ SC[Dev] = 129 /\ SC'[Dev] = 1
             /\ completions'[Dev] = completions[Dev] + 1
       /\ (ev'.op # "finish")
          => /\ ev'.ret # "complete"
             /\ SC'[Dev] = SC[Dev]
             /\ completions'[Dev] = completions[Dev]
      ]_vars

C16_Witness ==
    /\ ev.op = "finish" /\ ev.ret = "complete" /\ completions[Dev] = 1
    /\ trans_bits[Dev] = 0 /\ SC[Dev] = 1 /\ SB[Dev] = 165

\* C17: the main thread sends a Sync packet only with SC bit 7 set and the
\* cycle count at 514 or more; a tick with SC bit 7 clear sends nothing but
\* goes on to take the pending item from the queue (here: when an item is
\* pending and 65536 cycles or more have passed, it goes on to the synchronizer
\* test and the take).
C17_ClockSourceRule ==
    [][/\ (ev'.op = "send_bit")
          => (ClockBit(SC[Dev]) = 1 /\ cycles_count[Dev] >= 514)
       /\ (tpc[Dev] # "send" /\ tpc'[Dev] = "send") => ClockBit(SC[Dev]) = 1
       /\ (TickEntry /\ conn[Dev] # "none" /\ ClockBit(SC[Dev]) = 0
              /\ recvq[Dev] # << >> /\ cycles_count'[Dev] >= 65536)
          => tpc'[Dev] = "gate"
      ]_vars

\* C18: the step of tick that takes a bit leaves cycles_count at 0, and
\* nothing else lowers it; a tick of a connected device adds the elapsed cycles
\* to cycles_count, and when it is below the threshold or deferred by the
\* synchronizer it returns "no transfer" and leaves SB, SC, trans_bits, the
\* queue and the cycle count it has reached unchanged.
C18_CycleCountReset ==
    [][/\ (ev'.op = "get") => cycles_count'[Dev] = 0
       /\ (cycles_count'[Dev] < cycles_count[Dev]) => ev'.op = "get"
       /\ (TickEntry /\ conn[Dev] # "none")
          => /\ cycles_count'[Dev] = cycles_count[Dev] + ev'.inp[1]
             /\ UNCHANGED <<SB, SC, trans_bits, recvq>>
             /\ (cycles_count[Dev] + ev'.inp[1] < 514)
                => (ev'.ret = "none" /\ tpc'[Dev] = "idle")
       /\ (ev'.op = "gate" /\ TsGreater(timestamp[Dev], last_recv_ts[Dev]))
          => /\ ev'.ret = "none" /\ tpc'[Dev] = "idle"
             /\ UNCHANGED <<SB, SC, trans_bits, recvq, cycles_count>>
      ]_vars

C18_Witness ==
    /\ ev.op = "gate" /\ ev.ret = "none"
    /\ conn[Dev] = "open" /\ trans_bits[Dev] = 1 /\ cycles_count[Dev] = 2097152
    /\ ClockBit(SC[Dev]) = 1

\* C19: with two linked devices, the items ever put on the two queues are
\* bounded by the send_bit calls of the two main threads: each send_bit puts one
\* item on the peer's queue and its reply one item on the sender's queue, and a
\* reply is not answered again.  Items taken: 8 per completion plus trans_bits;
\* every take follows one send_bit of the same tick.
ItemsTaken(i) == 8 * completions[i] + trans_bits[i]
ItemsEnqueued(i) == Len(recvq[i]) + ItemsTaken(i)
SendBitCalls(i) == ItemsTaken(i) + (IF tpc[i] = "get" THEN 1 ELSE 0)

C19_SyncTrafficBounded ==
    ItemsEnqueued(Master) + ItemsEnqueued(Slave)
        <= 2 * (SendBitCalls(Master) + SendBitCalls(Slave))

\* C20: with two linked devices, the connection open and all threads fairly
\* scheduled, every call of tick returns, also when both sides send at the same
\* time: no tick stays in send_bit or waiting on the queue.  The ticks are
\* finitely many here, so from some point on no tick is in progress.
C20_TickReturns == <>[](\A i \in Sides : tpc[i] = "idle")

C20_Witness ==
    /\ tpc[Master] = "get" /\ tpc[Slave] = "get"
    /\ recvq[Master] = << >> /\ recvq[Slave] = << >>
    /\ ClockBit(SC[Slave]) = 1

\* C21: with two linked devices the Version/Status handshake quiesces: from
\* some point on no Status packet is in flight in either direction.
StatusInFlight ==
    \E i \in Sides :
        \/ \E k \in 1..Len(flight[i]) : flight[i][k][1] = 108
        \/ \E k \in 1..Len(wire[i]) : wire[i][k][1] = 108

C21_HandshakeQuiesces == <>[](~StatusInFlight)

====
